---- MODULE Spec2Model ----
(***************************************************************************)
(* Model of the image layout transition helper setImageLayout of the      *)
(* Vulkan API book (chapter "Image Layouts"): the VkImageMemoryBarrier it  *)
(* fills in, the two switch statements that choose the access masks, and   *)
(* the vkCmdPipelineBarrier command it records into the command buffer.    *)
(***************************************************************************)
EXTENDS Integers, Sequences, FiniteSets, TLC

\* Number of setImageLayout calls explored on the command buffer.
MaxCalls == 2

-----------------------------------------------------------------------------
(* Vulkan enumerations, by name.  A flags value (VkAccessFlags,            *)
(* VkImageAspectFlags, VkPipelineStageFlags) is the set of its bits, so    *)
(* `|` is \cup and the value 0 is {}.                                      *)

\* The VkImageLayout values the chapter names.
Layouts ==
    { "VK_IMAGE_LAYOUT_UNDEFINED",
      "VK_IMAGE_LAYOUT_GENERAL",
      "VK_IMAGE_LAYOUT_COLOR_ATTACHMENT_OPTIMAL",
      "VK_IMAGE_LAYOUT_DEPTH_STENCIL_ATTACHMENT_OPTIMAL",
      "VK_IMAGE_LAYOUT_SHADER_READ_ONLY_OPTIMAL",
      "VK_IMAGE_LAYOUT_TRANSFER_SRC_OPTIMAL",
      "VK_IMAGE_LAYOUT_TRANSFER_DST_OPTIMAL",
      "VK_IMAGE_LAYOUT_PREINITIALIZED" }

\* The (image, aspects) arguments callers pass: a colour image and a
\* depth/stencil image.
Targets ==
    { [image |-> 1, aspects |-> {"VK_IMAGE_ASPECT_COLOR_BIT"}],
      [image |-> 2, aspects |-> {"VK_IMAGE_ASPECT_DEPTH_BIT",
                                 "VK_IMAGE_ASPECT_STENCIL_BIT"}] }

\* ~0U, written as the two's complement reading of the all-ones word.
VK_QUEUE_FAMILY_IGNORED == -1

-----------------------------------------------------------------------------
VARIABLES
    cmdBuffer,   \* the commands recorded into the VkCommandBuffer, in order
    requests,    \* the arguments of the setImageLayout calls made, in order
    win,         \* the Win32 window, its thread's message queue and loop
    xcb,         \* the XCB window and its renderLoop
    app          \* the VulkanExample object under construction

vars == <<cmdBuffer, requests, win, xcb, app>>

\* VkImageMemoryBarrier imageBarrier = {};  every member zero.
ZeroImageBarrier ==
    [ sType               |-> 0,
      pNext               |-> "NULL",
      srcAccessMask       |-> {},
      dstAccessMask       |-> {},
      oldLayout           |-> "VK_IMAGE_LAYOUT_UNDEFINED",
      newLayout           |-> "VK_IMAGE_LAYOUT_UNDEFINED",
      srcQueueFamilyIndex |-> 0,
      dstQueueFamilyIndex |-> 0,
      image               |-> 0,
      subresourceRange    |-> [ aspectMask     |-> {},
                                baseMipLevel   |-> 0,
                                levelCount     |-> 0,
                                baseArrayLayer |-> 0,
                                layerCount     |-> 0 ] ]

\* Variant: the layerCount assignment is missing.
InitImageBarrier_NoLayerCount(image, aspects, oldLayout, newLayout) ==
    [ ZeroImageBarrier EXCEPT
        !.sType     = "VK_STRUCTURE_TYPE_IMAGE_MEMORY_BARRIER",
        !.pNext     = "NULL",
        !.oldLayout = oldLayout,
        !.newLayout = newLayout,
        !.image     = image,
        !.subresourceRange.aspectMask   = aspects,
        !.subresourceRange.baseMipLevel = 0,
        !.subresourceRange.levelCount   = 1 ]

\* The member assignments that follow the declaration.
InitImageBarrier(image, aspects, oldLayout, newLayout) ==
    [ ZeroImageBarrier EXCEPT
        !.sType     = "VK_STRUCTURE_TYPE_IMAGE_MEMORY_BARRIER",
        !.pNext     = "NULL",
        !.oldLayout = oldLayout,
        !.newLayout = newLayout,
        !.image     = image,
        !.subresourceRange.aspectMask   = aspects,
        !.subresourceRange.baseMipLevel = 0,
        !.subresourceRange.levelCount   = 1,
        !.subresourceRange.layerCount   = 1 ]

\* Variant: the depth/stencil case carries the colour case's mask.
SwitchOldLayout_DepthAsColor(imageBarrier, oldLayout) ==
    CASE oldLayout = "VK_IMAGE_LAYOUT_PREINITIALIZED" ->
           [imageBarrier EXCEPT !.srcAccessMask =
               {"VK_ACCESS_HOST_WRITE_BIT", "VK_ACCESS_TRANSFER_WRITE_BIT"}]
      [] oldLayout \in { "VK_IMAGE_LAYOUT_COLOR_ATTACHMENT_OPTIMAL",
                         "VK_IMAGE_LAYOUT_DEPTH_STENCIL_ATTACHMENT_OPTIMAL" } ->
           [imageBarrier EXCEPT !.srcAccessMask =
               {"VK_ACCESS_COLOR_ATTACHMENT_WRITE_BIT"}]
      [] oldLayout = "VK_IMAGE_LAYOUT_TRANSFER_SRC_OPTIMAL" ->
           [imageBarrier EXCEPT !.srcAccessMask =
               {"VK_ACCESS_TRANSFER_READ_BIT"}]
      [] oldLayout = "VK_IMAGE_LAYOUT_SHADER_READ_ONLY_OPTIMAL" ->
           [imageBarrier EXCEPT !.srcAccessMask =
               {"VK_ACCESS_SHADER_READ_BIT"}]
      [] OTHER -> imageBarrier

\* Variant: a default label shares the pre-initialized case, so every
\* unlisted oldLayout gets that case's mask.
SwitchOldLayout_DefaultLabel(imageBarrier, oldLayout) ==
    CASE oldLayout = "VK_IMAGE_LAYOUT_COLOR_ATTACHMENT_OPTIMAL" ->
           [imageBarrier EXCEPT !.srcAccessMask =
               {"VK_ACCESS_COLOR_ATTACHMENT_WRITE_BIT"}]
      [] oldLayout = "VK_IMAGE_LAYOUT_DEPTH_STENCIL_ATTACHMENT_OPTIMAL" ->
           [imageBarrier EXCEPT !.srcAccessMask =
               {"VK_ACCESS_DEPTH_STENCIL_ATTACHMENT_WRITE_BIT"}]
      [] oldLayout = "VK_IMAGE_LAYOUT_TRANSFER_SRC_OPTIMAL" ->
           [imageBarrier EXCEPT !.srcAccessMask =
               {"VK_ACCESS_TRANSFER_READ_BIT"}]
      [] oldLayout = "VK_IMAGE_LAYOUT_SHADER_READ_ONLY_OPTIMAL" ->
           [imageBarrier EXCEPT !.srcAccessMask =
               {"VK_ACCESS_SHADER_READ_BIT"}]
      [] OTHER ->
           [imageBarrier EXCEPT !.srcAccessMask =
               {"VK_ACCESS_HOST_WRITE_BIT", "VK_ACCESS_TRANSFER_WRITE_BIT"}]

\* switch (oldLayout): no default label, so any other value falls through.
SwitchOldLayout(imageBarrier, oldLayout) ==
    CASE oldLayout = "VK_IMAGE_LAYOUT_PREINITIALIZED" ->
           [imageBarrier EXCEPT !.srcAccessMask =
               {"VK_ACCESS_HOST_WRITE_BIT", "VK_ACCESS_TRANSFER_WRITE_BIT"}]
      [] oldLayout = "VK_IMAGE_LAYOUT_COLOR_ATTACHMENT_OPTIMAL" ->
           [imageBarrier EXCEPT !.srcAccessMask =
               {"VK_ACCESS_COLOR_ATTACHMENT_WRITE_BIT"}]
      [] oldLayout = "VK_IMAGE_LAYOUT_DEPTH_STENCIL_ATTACHMENT_OPTIMAL" ->
           [imageBarrier EXCEPT !.srcAccessMask =
               {"VK_ACCESS_DEPTH_STENCIL_ATTACHMENT_WRITE_BIT"}]
      [] oldLayout = "VK_IMAGE_LAYOUT_TRANSFER_SRC_OPTIMAL" ->
           [imageBarrier EXCEPT !.srcAccessMask =
               {"VK_ACCESS_TRANSFER_READ_BIT"}]
      [] oldLayout = "VK_IMAGE_LAYOUT_SHADER_READ_ONLY_OPTIMAL" ->
           [imageBarrier EXCEPT !.srcAccessMask =
               {"VK_ACCESS_SHADER_READ_BIT"}]
      [] OTHER -> imageBarrier

\* Variant: the colour-attachment case merges (|=) into srcAccessMask.
SwitchNewLayout_ColorMerges(imageBarrier, newLayout) ==
    CASE newLayout = "VK_IMAGE_LAYOUT_TRANSFER_DST_OPTIMAL" ->
           [imageBarrier EXCEPT !.dstAccessMask =
               {"VK_ACCESS_TRANSFER_WRITE_BIT"}]
      [] newLayout = "VK_IMAGE_LAYOUT_TRANSFER_SRC_OPTIMAL" ->
           [imageBarrier EXCEPT
               !.srcAccessMask = @ \cup {"VK_ACCESS_TRANSFER_READ_BIT"},
               !.dstAccessMask = {"VK_ACCESS_TRANSFER_READ_BIT"}]
      [] newLayout = "VK_IMAGE_LAYOUT_COLOR_ATTACHMENT_OPTIMAL" ->
           [imageBarrier EXCEPT
               !.dstAccessMask = {"VK_ACCESS_COLOR_ATTACHMENT_WRITE_BIT"},
               !.srcAccessMask = @ \cup {"VK_ACCESS_TRANSFER_READ_BIT"}]
      [] newLayout = "VK_IMAGE_LAYOUT_DEPTH_STENCIL_ATTACHMENT_OPTIMAL" ->
           [imageBarrier EXCEPT !.dstAccessMask =
               @ \cup {"VK_ACCESS_DEPTH_STENCIL_ATTACHMENT_WRITE_BIT"}]
      [] newLayout = "VK_IMAGE_LAYOUT_SHADER_READ_ONLY_OPTIMAL" ->
           [imageBarrier EXCEPT
               !.srcAccessMask = {"VK_ACCESS_HOST_WRITE_BIT",
                                  "VK_ACCESS_TRANSFER_WRITE_BIT"},
               !.dstAccessMask = {"VK_ACCESS_SHADER_READ_BIT"}]
      [] OTHER -> imageBarrier

\* Variant: the transfer-source case assigns (=) srcAccessMask.
SwitchNewLayout_TransferSrcAssigns(imageBarrier, newLayout) ==
    CASE newLayout = "VK_IMAGE_LAYOUT_TRANSFER_DST_OPTIMAL" ->
           [imageBarrier EXCEPT !.dstAccessMask =
               {"VK_ACCESS_TRANSFER_WRITE_BIT"}]
      [] newLayout = "VK_IMAGE_LAYOUT_TRANSFER_SRC_OPTIMAL" ->
           [imageBarrier EXCEPT
               !.srcAccessMask = {"VK_ACCESS_TRANSFER_READ_BIT"},
               !.dstAccessMask = {"VK_ACCESS_TRANSFER_READ_BIT"}]
      [] newLayout = "VK_IMAGE_LAYOUT_COLOR_ATTACHMENT_OPTIMAL" ->
           [imageBarrier EXCEPT
               !.dstAccessMask = {"VK_ACCESS_COLOR_ATTACHMENT_WRITE_BIT"},
               !.srcAccessMask = {"VK_ACCESS_TRANSFER_READ_BIT"}]
      [] newLayout = "VK_IMAGE_LAYOUT_DEPTH_STENCIL_ATTACHMENT_OPTIMAL" ->
           [imageBarrier EXCEPT !.dstAccessMask =
               @ \cup {"VK_ACCESS_DEPTH_STENCIL_ATTACHMENT_WRITE_BIT"}]
      [] newLayout = "VK_IMAGE_LAYOUT_SHADER_READ_ONLY_OPTIMAL" ->
           [imageBarrier EXCEPT
               !.srcAccessMask = {"VK_ACCESS_HOST_WRITE_BIT",
                                  "VK_ACCESS_TRANSFER_WRITE_BIT"},
               !.dstAccessMask = {"VK_ACCESS_SHADER_READ_BIT"}]
      [] OTHER -> imageBarrier

\* switch (newLayout): no default label either.
SwitchNewLayout(imageBarrier, newLayout) ==
    CASE newLayout = "VK_IMAGE_LAYOUT_TRANSFER_DST_OPTIMAL" ->
           [imageBarrier EXCEPT !.dstAccessMask =
               {"VK_ACCESS_TRANSFER_WRITE_BIT"}]
      [] newLayout = "VK_IMAGE_LAYOUT_TRANSFER_SRC_OPTIMAL" ->
           [imageBarrier EXCEPT
               !.srcAccessMask = @ \cup {"VK_ACCESS_TRANSFER_READ_BIT"},
               !.dstAccessMask = {"VK_ACCESS_TRANSFER_READ_BIT"}]
      [] newLayout = "VK_IMAGE_LAYOUT_COLOR_ATTACHMENT_OPTIMAL" ->
           [imageBarrier EXCEPT
               !.dstAccessMask = {"VK_ACCESS_COLOR_ATTACHMENT_WRITE_BIT"},
               !.srcAccessMask = {"VK_ACCESS_TRANSFER_READ_BIT"}]
      [] newLayout = "VK_IMAGE_LAYOUT_DEPTH_STENCIL_ATTACHMENT_OPTIMAL" ->
           [imageBarrier EXCEPT !.dstAccessMask =
               @ \cup {"VK_ACCESS_DEPTH_STENCIL_ATTACHMENT_WRITE_BIT"}]
      [] newLayout = "VK_IMAGE_LAYOUT_SHADER_READ_ONLY_OPTIMAL" ->
           [imageBarrier EXCEPT
               !.srcAccessMask = {"VK_ACCESS_HOST_WRITE_BIT",
                                  "VK_ACCESS_TRANSFER_WRITE_BIT"},
               !.dstAccessMask = {"VK_ACCESS_SHADER_READ_BIT"}]
      [] OTHER -> imageBarrier

\* void vkCmdPipelineBarrier(...): the command appended to the buffer, with
\* the arguments it was given.  A NULL array is the empty sequence.
vkCmdPipelineBarrier(commandBuffer, srcStageMask, dstStageMask, dependencyFlags, memoryBarrierCount, pMemoryBarriers, bufferMemoryBarrierCount, pBufferMemoryBarriers, imageMemoryBarrierCount, pImageMemoryBarriers) ==
    Append(commandBuffer,
           [ command                  |-> "vkCmdPipelineBarrier",
             srcStageMask             |-> srcStageMask,
             dstStageMask             |-> dstStageMask,
             dependencyFlags          |-> dependencyFlags,
             memoryBarrierCount       |-> memoryBarrierCount,
             pMemoryBarriers          |-> pMemoryBarriers,
             bufferMemoryBarrierCount |-> bufferMemoryBarrierCount,
             pBufferMemoryBarriers    |-> pBufferMemoryBarriers,
             imageMemoryBarrierCount  |-> imageMemoryBarrierCount,
             pImageMemoryBarriers     |-> pImageMemoryBarriers ])

\* The usage of vkCmdPipelineBarrier that ends setImageLayout:
\* vkCmdPipelineBarrier(cmdBuffer, srcFlags, dstFlags, 0, 0, NULL, 0, NULL,
\*                      1, &imageBarrier).
RecordBarrier(commandBuffer, imageBarrier) ==
    LET srcFlags == {"VK_PIPELINE_STAGE_TOP_OF_PIPE_BIT"}
        dstFlags == {"VK_PIPELINE_STAGE_TOP_OF_PIPE_BIT"}
    IN  vkCmdPipelineBarrier(commandBuffer, srcFlags, dstFlags, {},
                             0, <<>>, 0, <<>>, 1, <<imageBarrier>>)

\* Variant: a self transition (oldLayout = newLayout) is treated as nothing
\* to do and records no command.
setImageLayout_SkipsSelfTransition(commandBuffer, image, aspects, oldLayout, newLayout) ==
    IF oldLayout = newLayout
    THEN commandBuffer
    ELSE RecordBarrier(commandBuffer,
            SwitchNewLayout(
               SwitchOldLayout(
                  InitImageBarrier(image, aspects, oldLayout, newLayout),
                  oldLayout),
               newLayout))

\* Variant: imageBarrier has static storage, so a call starts from the access
\* masks the previous call left in it.
setImageLayout_StaticBarrier(commandBuffer, image, aspects, oldLayout, newLayout) ==
    LET fresh == InitImageBarrier(image, aspects, oldLayout, newLayout)
        b0 == IF Len(commandBuffer) = 0
              THEN fresh
              ELSE LET last ==
                         commandBuffer[Len(commandBuffer)].pImageMemoryBarriers[1]
                   IN  [fresh EXCEPT !.srcAccessMask = last.srcAccessMask,
                                     !.dstAccessMask = last.dstAccessMask]
    IN  RecordBarrier(commandBuffer,
           SwitchNewLayout(SwitchOldLayout(b0, oldLayout), newLayout))

\* Variant: the helper remembers the layout of each image: the barrier's
\* oldLayout is the newLayout of the last barrier recorded for the image.
setImageLayout_TracksLayout(commandBuffer, image, aspects, oldLayout, newLayout) ==
    LET earlier == {k \in DOMAIN commandBuffer :
                       commandBuffer[k].pImageMemoryBarriers[1].image = image}
        tracked == IF earlier = {}
                   THEN oldLayout
                   ELSE LET k == CHOOSE m \in earlier : \A n \in earlier : n <= m
                        IN  commandBuffer[k].pImageMemoryBarriers[1].newLayout
    IN  RecordBarrier(commandBuffer,
           SwitchNewLayout(
              SwitchOldLayout(
                 InitImageBarrier(image, aspects, tracked, newLayout),
                 tracked),
              newLayout))

\* void setImageLayout(cmdBuffer, image, aspects, oldLayout, newLayout):
\* the command buffer after the call.
setImageLayout(commandBuffer, image, aspects, oldLayout, newLayout) ==
    LET b0 == InitImageBarrier(image, aspects, oldLayout, newLayout)
        b1 == SwitchOldLayout(b0, oldLayout)
        b2 == SwitchNewLayout(b1, newLayout)
    IN  RecordBarrier(commandBuffer, b2)

-----------------------------------------------------------------------------
\* The Win32 program before its window exists (the other chapters' state
\* while setImageLayout is exercised).
NoWindow ==
    [ wndProc     |-> "none",
      windowState |-> "none",
      msgQueue    |-> <<>>,
      quitPosted  |-> FALSE,
      apiLog      |-> <<>>,
      closes      |-> 0,
      pc          |-> "start",
      message     |-> "none" ]

\* The XCB program before initWindow: the members are not yet assigned.
NoXcbWindow ==
    [ pc          |-> "start",
      connection  |-> "unassigned",
      window      |-> "unassigned",
      wmDeleteWin |-> "unassigned",
      running     |-> FALSE,
      events      |-> <<>>,
      derefs      |-> <<>>,
      freed       |-> <<>>,
      destroys    |-> 0 ]

\* The VulkanExample object before its constructor runs: no member has a
\* value yet; app.calls is the order of the API calls and member reads.
NotConstructed ==
    [ pc             |-> "initInstance",
      platform       |-> "none",
      instance       |-> "unassigned",
      deviceCount    |-> 0,
      physicalDevice |-> "unassigned",
      device         |-> "unassigned",
      window         |-> "unassigned",
      surface        |-> "unassigned",
      exitStatus     |-> "none",
      calls          |-> <<>> ]

Init ==
    /\ cmdBuffer = <<>>
    /\ requests = <<>>
    /\ win = NoWindow
    /\ xcb = NoXcbWindow
    /\ app = NotConstructed

\* One call of setImageLayout by the renderer.
CallSetImageLayout ==
    /\ Len(requests) < MaxCalls
    /\ \E t \in Targets, oldLayout \in Layouts, newLayout \in Layouts :
          /\ requests' = Append(requests,
                                [ image     |-> t.image,
                                  aspects   |-> t.aspects,
                                  oldLayout |-> oldLayout,
                                  newLayout |-> newLayout ])
          /\ cmdBuffer' = setImageLayout(cmdBuffer, t.image, t.aspects,
                                         oldLayout, newLayout)
    /\ UNCHANGED <<win, xcb, app>>

Next == CallSetImageLayout

Spec == Init /\ [][Next]_vars

-----------------------------------------------------------------------------
(* The tables of the design document, written out independently of the    *)
(* switch statements above, and the recorded barriers they are compared   *)
(* with.                                                                   *)

\* Calls whose command is in the buffer.
Recorded == DOMAIN cmdBuffer \cap DOMAIN requests

\* Commands that carry an image barrier.
WithBarrier == {i \in Recorded : Len(cmdBuffer[i].pImageMemoryBarriers) >= 1}

\* The image barrier of the i-th recorded command.
BarrierAt(i) == cmdBuffer[i].pImageMemoryBarriers[1]

\* Step 1 of the design document: oldLayout -> srcAccessMask.
Step1Table(oldLayout) ==
    IF oldLayout = "VK_IMAGE_LAYOUT_PREINITIALIZED"
      THEN {"VK_ACCESS_HOST_WRITE_BIT", "VK_ACCESS_TRANSFER_WRITE_BIT"}
    ELSE IF oldLayout = "VK_IMAGE_LAYOUT_COLOR_ATTACHMENT_OPTIMAL"
      THEN {"VK_ACCESS_COLOR_ATTACHMENT_WRITE_BIT"}
    ELSE IF oldLayout = "VK_IMAGE_LAYOUT_DEPTH_STENCIL_ATTACHMENT_OPTIMAL"
      THEN {"VK_ACCESS_DEPTH_STENCIL_ATTACHMENT_WRITE_BIT"}
    ELSE IF oldLayout = "VK_IMAGE_LAYOUT_TRANSFER_SRC_OPTIMAL"
      THEN {"VK_ACCESS_TRANSFER_READ_BIT"}
    ELSE IF oldLayout = "VK_IMAGE_LAYOUT_SHADER_READ_ONLY_OPTIMAL"
      THEN {"VK_ACCESS_SHADER_READ_BIT"}
    ELSE {}

\* The layouts with a row in step 1, and those with a row in step 2.
Step1Layouts ==
    { "VK_IMAGE_LAYOUT_PREINITIALIZED",
      "VK_IMAGE_LAYOUT_COLOR_ATTACHMENT_OPTIMAL",
      "VK_IMAGE_LAYOUT_DEPTH_STENCIL_ATTACHMENT_OPTIMAL",
      "VK_IMAGE_LAYOUT_TRANSFER_SRC_OPTIMAL",
      "VK_IMAGE_LAYOUT_SHADER_READ_ONLY_OPTIMAL" }

Step2Layouts ==
    { "VK_IMAGE_LAYOUT_TRANSFER_DST_OPTIMAL",
      "VK_IMAGE_LAYOUT_TRANSFER_SRC_OPTIMAL",
      "VK_IMAGE_LAYOUT_COLOR_ATTACHMENT_OPTIMAL",
      "VK_IMAGE_LAYOUT_DEPTH_STENCIL_ATTACHMENT_OPTIMAL",
      "VK_IMAGE_LAYOUT_SHADER_READ_ONLY_OPTIMAL" }

\* Step 2 of the design document applied to the masks (src, {}).
Step2Src(src, newLayout) ==
    IF newLayout = "VK_IMAGE_LAYOUT_TRANSFER_SRC_OPTIMAL"
      THEN src \cup {"VK_ACCESS_TRANSFER_READ_BIT"}
    ELSE IF newLayout = "VK_IMAGE_LAYOUT_COLOR_ATTACHMENT_OPTIMAL"
      THEN {"VK_ACCESS_TRANSFER_READ_BIT"}
    ELSE IF newLayout = "VK_IMAGE_LAYOUT_SHADER_READ_ONLY_OPTIMAL"
      THEN {"VK_ACCESS_HOST_WRITE_BIT", "VK_ACCESS_TRANSFER_WRITE_BIT"}
    ELSE src

Step2Dst(newLayout) ==
    IF newLayout = "VK_IMAGE_LAYOUT_TRANSFER_DST_OPTIMAL"
      THEN {"VK_ACCESS_TRANSFER_WRITE_BIT"}
    ELSE IF newLayout = "VK_IMAGE_LAYOUT_TRANSFER_SRC_OPTIMAL"
      THEN {"VK_ACCESS_TRANSFER_READ_BIT"}
    ELSE IF newLayout = "VK_IMAGE_LAYOUT_COLOR_ATTACHMENT_OPTIMAL"
      THEN {"VK_ACCESS_COLOR_ATTACHMENT_WRITE_BIT"}
    ELSE IF newLayout = "VK_IMAGE_LAYOUT_DEPTH_STENCIL_ATTACHMENT_OPTIMAL"
      THEN {"VK_ACCESS_DEPTH_STENCIL_ATTACHMENT_WRITE_BIT"}
    ELSE IF newLayout = "VK_IMAGE_LAYOUT_SHADER_READ_ONLY_OPTIMAL"
      THEN {"VK_ACCESS_SHADER_READ_BIT"}
    ELSE {}

-----------------------------------------------------------------------------
\* C1: for every oldLayout of the step-1 table and every newLayout of the
\* step-2 table, the recorded barrier carries exactly the srcAccessMask and
\* dstAccessMask that step 1 followed by step 2 give from empty masks.
C1_RecognizedPairsFollowTables ==
    \A i \in WithBarrier :
        (/\ requests[i].oldLayout \in Step1Layouts
         /\ requests[i].newLayout \in Step2Layouts)
        => /\ BarrierAt(i).srcAccessMask =
                Step2Src(Step1Table(requests[i].oldLayout),
                         requests[i].newLayout)
           /\ BarrierAt(i).dstAccessMask = Step2Dst(requests[i].newLayout)

\* Scenario 1: pre-initialized -> transfer-destination-optimal was recorded
\* with src {host-write, transfer-write} and dst {transfer-write}.
C1_Witness ==
    \E i \in WithBarrier :
        /\ requests[i].oldLayout = "VK_IMAGE_LAYOUT_PREINITIALIZED"
        /\ requests[i].newLayout = "VK_IMAGE_LAYOUT_TRANSFER_DST_OPTIMAL"
        /\ BarrierAt(i).srcAccessMask =
              {"VK_ACCESS_HOST_WRITE_BIT", "VK_ACCESS_TRANSFER_WRITE_BIT"}
        /\ BarrierAt(i).dstAccessMask = {"VK_ACCESS_TRANSFER_WRITE_BIT"}

\* C2: when newLayout is color-attachment-optimal or shader-read-only-optimal
\* the recorded srcAccessMask does not depend on oldLayout: it is
\* {transfer-read}, respectively {host-write, transfer-write}, and two calls
\* that differ only in oldLayout record the same srcAccessMask.
C2_SrcIndependentOfOldLayout ==
    /\ \A i \in WithBarrier :
          /\ requests[i].newLayout = "VK_IMAGE_LAYOUT_COLOR_ATTACHMENT_OPTIMAL"
             => BarrierAt(i).srcAccessMask = {"VK_ACCESS_TRANSFER_READ_BIT"}
          /\ requests[i].newLayout = "VK_IMAGE_LAYOUT_SHADER_READ_ONLY_OPTIMAL"
             => BarrierAt(i).srcAccessMask =
                  {"VK_ACCESS_HOST_WRITE_BIT", "VK_ACCESS_TRANSFER_WRITE_BIT"}
    /\ \A i, j \in WithBarrier :
          (/\ requests[i].newLayout = requests[j].newLayout
           /\ requests[i].newLayout \in
                 { "VK_IMAGE_LAYOUT_COLOR_ATTACHMENT_OPTIMAL",
                   "VK_IMAGE_LAYOUT_SHADER_READ_ONLY_OPTIMAL" }
           /\ requests[i].image = requests[j].image
           /\ requests[i].aspects = requests[j].aspects)
          => BarrierAt(i).srcAccessMask = BarrierAt(j).srcAccessMask

\* Scenario 4 next to a call that differs only in oldLayout: the self
\* transition of shader-read-only-optimal and pre-initialized ->
\* shader-read-only-optimal were both recorded for the same image.
C2_Witness ==
    \E i, j \in WithBarrier :
        /\ requests[i].oldLayout = "VK_IMAGE_LAYOUT_SHADER_READ_ONLY_OPTIMAL"
        /\ requests[i].newLayout = "VK_IMAGE_LAYOUT_SHADER_READ_ONLY_OPTIMAL"
        /\ requests[j].oldLayout = "VK_IMAGE_LAYOUT_COLOR_ATTACHMENT_OPTIMAL"
        /\ requests[j].newLayout = "VK_IMAGE_LAYOUT_SHADER_READ_ONLY_OPTIMAL"
        /\ requests[i].image = requests[j].image
        /\ BarrierAt(i).dstAccessMask = {"VK_ACCESS_SHADER_READ_BIT"}

\* C3: when newLayout is transfer-source-optimal, for every oldLayout the
\* recorded srcAccessMask is the step-1 mask of oldLayout united with
\* {transfer-read}, and dstAccessMask is {transfer-read}.
C3_TransferSrcMerges ==
    \A i \in WithBarrier :
        requests[i].newLayout = "VK_IMAGE_LAYOUT_TRANSFER_SRC_OPTIMAL"
        => /\ BarrierAt(i).srcAccessMask =
                Step1Table(requests[i].oldLayout)
                   \cup {"VK_ACCESS_TRANSFER_READ_BIT"}
           /\ BarrierAt(i).dstAccessMask = {"VK_ACCESS_TRANSFER_READ_BIT"}

\* Scenario 2: color-attachment-optimal -> transfer-source-optimal was
\* recorded with the merged mask {color-attachment-write, transfer-read}.
C3_Witness ==
    \E i \in WithBarrier :
        /\ requests[i].oldLayout = "VK_IMAGE_LAYOUT_COLOR_ATTACHMENT_OPTIMAL"
        /\ requests[i].newLayout = "VK_IMAGE_LAYOUT_TRANSFER_SRC_OPTIMAL"
        /\ BarrierAt(i).srcAccessMask =
              { "VK_ACCESS_COLOR_ATTACHMENT_WRITE_BIT",
                "VK_ACCESS_TRANSFER_READ_BIT" }

\* C4: no recorded barrier has newLayout undefined or pre-initialized: a
\* request with such a newLayout leaves the command buffer without a command
\* for it.
C4_NoBarrierToUndefinedOrPreinitialized ==
    /\ \A i \in DOMAIN cmdBuffer :
          \A k \in DOMAIN cmdBuffer[i].pImageMemoryBarriers :
              cmdBuffer[i].pImageMemoryBarriers[k].newLayout \notin
                 { "VK_IMAGE_LAYOUT_UNDEFINED",
                   "VK_IMAGE_LAYOUT_PREINITIALIZED" }
    /\ Len(cmdBuffer) =
          Cardinality({i \in DOMAIN requests :
              requests[i].newLayout \notin
                 { "VK_IMAGE_LAYOUT_UNDEFINED",
                   "VK_IMAGE_LAYOUT_PREINITIALIZED" }})

\* C5: in every recorded barrier, for every oldLayout of the step-1 table
\* and every newLayout, srcAccessMask contains every access bit that step 1
\* assigns to oldLayout.
C5_SrcReflectsOldLayout ==
    \A i \in WithBarrier :
        requests[i].oldLayout \in Step1Layouts
        => Step1Table(requests[i].oldLayout) \subseteq
              BarrierAt(i).srcAccessMask

\* C6: a layout outside the enumerated cases neither fails nor skips the
\* recording: one barrier is recorded per call; an unlisted oldLayout
\* contributes the empty srcAccessMask (the barrier's mask is what step 2
\* makes of {}); an unlisted newLayout leaves dstAccessMask empty and
\* srcAccessMask as step 1 produced it.
C6_UnlistedLayoutsStillRecorded ==
    /\ Len(cmdBuffer) = Len(requests)
    /\ WithBarrier = DOMAIN requests
    /\ \A i \in WithBarrier :
          /\ requests[i].oldLayout \notin Step1Layouts
             => BarrierAt(i).srcAccessMask =
                   Step2Src({}, requests[i].newLayout)
          /\ requests[i].newLayout \notin Step2Layouts
             => /\ BarrierAt(i).dstAccessMask = {}
                /\ BarrierAt(i).srcAccessMask =
                      Step1Table(requests[i].oldLayout)

\* undefined -> general was recorded with both masks empty, and a call with
\* the unlisted oldLayout transfer-destination-optimal was recorded too.
C6_Witness ==
    /\ \E i \in WithBarrier :
          /\ requests[i].oldLayout = "VK_IMAGE_LAYOUT_UNDEFINED"
          /\ requests[i].newLayout = "VK_IMAGE_LAYOUT_GENERAL"
          /\ BarrierAt(i).srcAccessMask = {}
          /\ BarrierAt(i).dstAccessMask = {}
    /\ \E i \in WithBarrier :
          /\ requests[i].oldLayout = "VK_IMAGE_LAYOUT_TRANSFER_DST_OPTIMAL"
          /\ requests[i].newLayout = "VK_IMAGE_LAYOUT_SHADER_READ_ONLY_OPTIMAL"

\* C7: every call, for every aspect mask, oldLayout and newLayout, records
\* exactly one vkCmdPipelineBarrier command with exactly one image barrier,
\* no memory barrier, no buffer barrier, no dependency flag and top-of-pipe
\* as source and as destination stage: the buffer holds one command per call.
C7_OneBarrierCommandPerCall ==
    /\ Len(cmdBuffer) = Len(requests)
    /\ \A i \in DOMAIN cmdBuffer :
          /\ cmdBuffer[i].command = "vkCmdPipelineBarrier"
          /\ cmdBuffer[i].imageMemoryBarrierCount = 1
          /\ Len(cmdBuffer[i].pImageMemoryBarriers) = 1
          /\ cmdBuffer[i].memoryBarrierCount = 0
          /\ cmdBuffer[i].pMemoryBarriers = <<>>
          /\ cmdBuffer[i].bufferMemoryBarrierCount = 0
          /\ cmdBuffer[i].pBufferMemoryBarriers = <<>>
          /\ cmdBuffer[i].dependencyFlags = {}
          /\ cmdBuffer[i].srcStageMask = {"VK_PIPELINE_STAGE_TOP_OF_PIPE_BIT"}
          /\ cmdBuffer[i].dstStageMask = {"VK_PIPELINE_STAGE_TOP_OF_PIPE_BIT"}

\* Two calls were made, one of them a self transition, the other to an
\* unlisted layout, and the buffer holds two commands.
C7_Witness ==
    /\ Len(requests) = 2
    /\ Len(cmdBuffer) = 2
    /\ requests[1].oldLayout = requests[1].newLayout
    /\ requests[2].newLayout = "VK_IMAGE_LAYOUT_GENERAL"
    /\ requests[1].aspects # requests[2].aspects

\* C8: every recorded barrier has base mip level 0, level count 1, base array
\* layer 0 and layer count 1; its aspect mask, image, oldLayout and newLayout
\* are the caller's arguments.
C8_SubresourceRangeFixed ==
    \A i \in WithBarrier :
        /\ BarrierAt(i).subresourceRange =
              [ aspectMask     |-> requests[i].aspects,
                baseMipLevel   |-> 0,
                levelCount     |-> 1,
                baseArrayLayer |-> 0,
                layerCount     |-> 1 ]
        /\ BarrierAt(i).image = requests[i].image
        /\ BarrierAt(i).oldLayout = requests[i].oldLayout
        /\ BarrierAt(i).newLayout = requests[i].newLayout

\* Barriers for both images, with different aspect masks and layout pairs,
\* were recorded.
C8_Witness ==
    \E i, j \in WithBarrier :
        /\ requests[i].image # requests[j].image
        /\ requests[i].aspects = {"VK_IMAGE_ASPECT_COLOR_BIT"}
        /\ requests[j].aspects = { "VK_IMAGE_ASPECT_DEPTH_BIT",
                                   "VK_IMAGE_ASPECT_STENCIL_BIT" }
        /\ requests[i].oldLayout # requests[i].newLayout
        /\ BarrierAt(j).subresourceRange.layerCount = 1

\* C9: every recorded barrier has srcQueueFamilyIndex and dstQueueFamilyIndex
\* equal to VK_QUEUE_FAMILY_IGNORED, not to queue family 0 or another index.
C9_QueueFamiliesIgnored ==
    \A i \in WithBarrier :
        /\ BarrierAt(i).srcQueueFamilyIndex = VK_QUEUE_FAMILY_IGNORED
        /\ BarrierAt(i).dstQueueFamilyIndex = VK_QUEUE_FAMILY_IGNORED

\* C10: setImageLayout is stateless: whatever was recorded before, a call
\* records the command it records on an empty buffer, so the buffer is the
\* concatenation, in call order, of the per-call commands, and calls with
\* the same arguments have recorded the same command.
C10_Stateless ==
    /\ Len(cmdBuffer) = Len(requests)
    /\ \A i \in Recorded :
          <<cmdBuffer[i]>> =
             setImageLayout(<<>>, requests[i].image, requests[i].aspects,
                            requests[i].oldLayout, requests[i].newLayout)
    /\ \A i, j \in Recorded :
          requests[i] = requests[j] => cmdBuffer[i] = cmdBuffer[j]

\* The same call was made twice, after a call had already left non-empty
\* masks in a recorded barrier.
C10_Witness ==
    /\ Len(cmdBuffer) = 2
    /\ requests[1] = requests[2]
    /\ requests[1].oldLayout = "VK_IMAGE_LAYOUT_PREINITIALIZED"
    /\ requests[1].newLayout = "VK_IMAGE_LAYOUT_TRANSFER_SRC_OPTIMAL"
    /\ cmdBuffer[1] = cmdBuffer[2]

\* Call i and call j are consecutive calls on the same image.
ConsecutiveOnImage(i, j) ==
    /\ i < j
    /\ requests[i].image = requests[j].image
    /\ \A k \in DOMAIN requests :
          (i < k /\ k < j) => requests[k].image # requests[i].image

\* C11: the helper does not track an image's layout: a call whose oldLayout
\* differs from the newLayout of the previous call on the same image is
\* still recorded, as a barrier with the caller's oldLayout (and the masks
\* of that oldLayout), with no error and no correction.
C11_LayoutNotTracked ==
    /\ Len(cmdBuffer) = Len(requests)
    /\ \A i, j \in DOMAIN requests :
          (/\ ConsecutiveOnImage(i, j)
           /\ requests[j].oldLayout # requests[i].newLayout)
          => /\ j \in WithBarrier
             /\ BarrierAt(j).image = requests[j].image
             /\ BarrierAt(j).oldLayout = requests[j].oldLayout
             /\ BarrierAt(j).oldLayout # BarrierAt(i).newLayout

\* An image was moved to transfer-destination-optimal and the next call on
\* it claimed it was in color-attachment-optimal; both were recorded.
C11_Witness ==
    /\ Len(cmdBuffer) = 2
    /\ ConsecutiveOnImage(1, 2)
    /\ requests[1].newLayout = "VK_IMAGE_LAYOUT_TRANSFER_DST_OPTIMAL"
    /\ requests[2].oldLayout = "VK_IMAGE_LAYOUT_COLOR_ATTACHMENT_OPTIMAL"
    /\ BarrierAt(2).oldLayout = "VK_IMAGE_LAYOUT_COLOR_ATTACHMENT_OPTIMAL"

-----------------------------------------------------------------------------
(* The Win32 window of the "Windows" chapter (updateWindow / WndProc /     *)
(* WinMain) and of the later chapters (WndProc / initWindow / renderLoop). *)
(* win.wndProc names the window procedure the class was registered with;   *)
(* win.apiLog is the order of the DestroyWindow and PostQuitMessage calls; *)
(* win.closes counts the WM_CLOSE messages DispatchMessage has delivered.  *)

\* Messages the thread's queue may still hold for the window.
MaxQueue == 2

\* Messages the system posts for the window.
PostedMessages == {"WM_CLOSE", "WM_PAINT", "WM_MOUSEMOVE"}

\* PostQuitMessage(0): the thread's quit flag is set.
PostQuitMessage(w) ==
    [w EXCEPT !.quitPosted = TRUE,
              !.apiLog = Append(@, "PostQuitMessage")]

RECURSIVE WndProc(_, _)

\* DestroyWindow(hWnd): a live window is sent WM_DESTROY, then destroyed and
\* its messages flushed from the queue; on a window that is being destroyed
\* or is gone the call fails and changes nothing.
DestroyWindow(w) ==
    LET called == [w EXCEPT !.apiLog = Append(@, "DestroyWindow")]
    IN  IF w.windowState # "alive"
        THEN called
        ELSE [ WndProc([called EXCEPT !.windowState = "destroying"],
                       "WM_DESTROY")
               EXCEPT !.windowState = "destroyed", !.msgQueue = <<>> ]

\* DefWindowProc: the default handling of WM_CLOSE is DestroyWindow(hWnd).
DefWindowProc(w, message) ==
    IF message = "WM_CLOSE" THEN DestroyWindow(w) ELSE w

\* VulkanExample::updateWindow of the "Windows" chapter.
updateWindow(w, message) ==
    IF message = "WM_CLOSE"
    THEN PostQuitMessage(DestroyWindow(w))
    ELSE w

\* WndProc of the "Windows" chapter: updateWindow, then DefWindowProc.
WndProc_WinMain(w, uMsg) ==
    DefWindowProc(updateWindow(w, uMsg), uMsg)

\* WndProc of the later chapters.
WndProc_renderLoop(w, message) ==
    CASE message = "WM_DESTROY" -> PostQuitMessage(DestroyWindow(w))
      [] message = "WM_PAINT"   -> w
      [] OTHER                  -> DefWindowProc(w, message)

\* The window procedure the window class was registered with.
WndProc(w, message) ==
    IF w.wndProc = "WinMain"
    THEN WndProc_WinMain(w, message)
    ELSE WndProc_renderLoop(w, message)

\* createWindow / initWindow: the class is registered with the chapter's
\* WndProc and the window created, or the program exits with a failure.
CreateWindow ==
    /\ win.pc = "start"
    /\ \E proc \in {"WinMain", "renderLoop"}, created \in BOOLEAN :
          win' = IF created
                 THEN [win EXCEPT !.wndProc = proc,
                                  !.windowState = "alive",
                                  !.pc = "GetMessage"]
                 ELSE [win EXCEPT !.wndProc = proc, !.pc = "exit_failure"]
    /\ UNCHANGED <<cmdBuffer, requests, xcb, app>>

\* The system posts a message for the live window.
PostMessage ==
    /\ win.windowState = "alive"
    /\ Len(win.msgQueue) < MaxQueue
    /\ \E m \in PostedMessages :
          win' = [win EXCEPT !.msgQueue = Append(@, m)]
    /\ UNCHANGED <<cmdBuffer, requests, xcb, app>>

\* while (GetMessage(&message, NULL, 0, 0)): the next posted message, or,
\* with the queue empty and the quit flag set, WM_QUIT and the value 0,
\* which ends the loop; otherwise the call blocks.
GetMessage ==
    /\ win.pc = "GetMessage"
    /\ \/ /\ win.msgQueue # <<>>
          /\ win' = [win EXCEPT !.message = Head(win.msgQueue),
                                !.msgQueue = Tail(@),
                                !.pc = "DispatchMessage"]
       \/ /\ win.msgQueue = <<>>
          /\ win.quitPosted
          /\ win' = [win EXCEPT !.message = "WM_QUIT", !.pc = "exited"]
    /\ UNCHANGED <<cmdBuffer, requests, xcb, app>>

\* TranslateMessage(&message) (nothing for these messages) and
\* DispatchMessage(&message): the window procedure runs to completion.  A
\* message of a window that is gone is dropped.
DispatchMessage ==
    /\ win.pc = "DispatchMessage"
    /\ LET counted == [win EXCEPT !.closes =
                          IF win.message = "WM_CLOSE" THEN @ + 1 ELSE @]
           handled == IF win.windowState = "alive"
                      THEN WndProc(counted, win.message)
                      ELSE win
       IN  win' = [handled EXCEPT !.pc = "GetMessage"]
    /\ UNCHANGED <<cmdBuffer, requests, xcb, app>>

NextWin32 ==
    \/ CreateWindow
    \/ PostMessage
    \/ GetMessage
    \/ DispatchMessage

SpecWin32 == Init /\ [][NextWin32]_vars

\* The message loop keeps running: GetMessage returns whenever it can and
\* the retrieved message is dispatched.
SpecWin32Fair ==
    SpecWin32 /\ WF_vars(GetMessage) /\ WF_vars(DispatchMessage)

\* Number of calls of an API function in the log.
CallsOf(name) == Cardinality({k \in DOMAIN win.apiLog : win.apiLog[k] = name})

\* C12: once a WM_CLOSE has been dispatched, the window is destroyed and
\* then the quit message posted, and DestroyWindow has been requested at
\* most once per close request.
C12_CloseDestroysOnceAndQuits ==
    (win.closes >= 1 /\ win.pc \in {"GetMessage", "exited"})
    => /\ win.windowState = "destroyed"
       /\ win.quitPosted
       /\ \E d, q \in DOMAIN win.apiLog :
             /\ win.apiLog[d] = "DestroyWindow"
             /\ win.apiLog[q] = "PostQuitMessage"
             /\ d < q
       /\ CallsOf("DestroyWindow") <= win.closes

\* The parts of C12 other than the number of DestroyWindow requests.
C12_CloseDestroysAndQuits ==
    (win.closes >= 1 /\ win.pc \in {"GetMessage", "exited"})
    => /\ win.windowState = "destroyed"
       /\ win.quitPosted
       /\ win.apiLog[1] = "DestroyWindow"
       /\ CallsOf("PostQuitMessage") = 1
       /\ CallsOf("DestroyWindow") = 2

\* The liveness part of C12: after a dispatched WM_CLOSE the GetMessage
\* loop ends.
C12_LoopTerminates == (win.closes >= 1) ~> (win.pc = "exited")

-----------------------------------------------------------------------------
(* The XCB window: initWindow's WM_DELETE_WINDOW atom and renderLoop.      *)
(* xcb.events is the sequence of values xcb_wait_for_event returned,       *)
(* xcb.derefs the pointers the loop dereferenced, xcb.freed the non-null   *)
(* pointers passed to free, xcb.destroys the xcb_destroy_window calls.     *)

\* Events renderLoop receives before the model stops.
MaxEvents == 2

\* Event codes of xcb/xproto.h.
XCB_CLIENT_MESSAGE == 33
XCB_EXPOSE == 12
XCB_KEY_PRESS == 2

\* Atoms the X server hands out.
Atoms == {"WM_DELETE_WINDOW", "WM_PROTOCOLS", "WM_TAKE_FOCUS"}

\* The events the server delivers: a response_type, with or without the
\* 0x80 bit of an event sent by another client, and the first data word.
Events ==
    [ ptr           : {"event"},
      response_type : { XCB_KEY_PRESS, XCB_EXPOSE, XCB_CLIENT_MESSAGE,
                        XCB_CLIENT_MESSAGE + 128 },
      data32_0      : Atoms ]

\* The NULL that xcb_wait_for_event returns on a connection error: a pointer
\* to no event.
NullEvent == [ptr |-> "NULL", response_type |-> 0, data32_0 |-> "none"]

\* response_type & ~0x80 on the 8-bit response_type.
ClearSentBit(response_type) ==
    IF response_type >= 128 THEN response_type - 128 ELSE response_type

\* The body of the switch: running after the event has been looked at.
RunningAfter(running, event, wmDeleteWin) ==
    IF ClearSentBit(event.response_type) = XCB_CLIENT_MESSAGE
    THEN IF event.data32_0 = wmDeleteWin THEN FALSE ELSE running
    ELSE running

\* VulkanExample::initWindow (XCB): the connection, the window id and the
\* atoms.  A failed connection exits; a NULL atom reply is dereferenced
\* unchecked, which crashes or yields an arbitrary atom.
XcbInitWindow ==
    /\ xcb.pc = "start"
    /\ \/ xcb' = [xcb EXCEPT !.connection = "error", !.pc = "exit_failure"]
       \/ xcb' = [xcb EXCEPT !.connection = "connected",
                             !.window = "window",
                             !.wmDeleteWin = "WM_DELETE_WINDOW",
                             !.running = TRUE,
                             !.pc = "loop"]
       \/ xcb' = [xcb EXCEPT !.connection = "connected",
                             !.window = "window",
                             !.pc = "crashed"]
       \/ \E garbage \in Atoms :
             xcb' = [xcb EXCEPT !.connection = "connected",
                                !.window = "window",
                                !.wmDeleteWin = garbage,
                                !.running = TRUE,
                                !.pc = "loop"]
    /\ UNCHANGED <<cmdBuffer, requests, win, app>>

\* One iteration of while (running): xcb_wait_for_event returns an event or
\* NULL (connection error); the switch reads event->response_type; the event
\* is freed.  Reading through NULL crashes or reads arbitrary bytes;
\* free(NULL) does nothing.
XcbHandleEvent ==
    /\ xcb.pc = "loop"
    /\ xcb.running
    /\ Len(xcb.events) < MaxEvents
    /\ \/ \E event \in Events :
             xcb' = [xcb EXCEPT
                       !.events  = Append(@, event),
                       !.derefs  = Append(@, event),
                       !.running = RunningAfter(@, event, xcb.wmDeleteWin),
                       !.freed   = Append(@, event)]
       \/ xcb' = [xcb EXCEPT !.events = Append(@, NullEvent),
                             !.derefs = Append(@, NullEvent),
                             !.pc = "crashed"]
       \/ \E garbage \in Events :
             xcb' = [xcb EXCEPT
                       !.events  = Append(@, NullEvent),
                       !.derefs  = Append(@, NullEvent),
                       !.running = RunningAfter(@, garbage, xcb.wmDeleteWin)]
    /\ UNCHANGED <<cmdBuffer, requests, win, app>>

\* The loop has ended: xcb_destroy_window(connection, window) and return.
XcbDestroyWindow ==
    /\ xcb.pc = "loop"
    /\ ~xcb.running
    /\ xcb' = [xcb EXCEPT !.destroys = @ + 1, !.pc = "returned"]
    /\ UNCHANGED <<cmdBuffer, requests, win, app>>

NextXcb ==
    \/ XcbInitWindow
    \/ XcbHandleEvent
    \/ XcbDestroyWindow

SpecXcb == Init /\ [][NextXcb]_vars

\* The event is a client message carrying the WM_DELETE_WINDOW atom.
IsDeleteRequest(event) ==
    /\ event.ptr # "NULL"
    /\ event.response_type \in {XCB_CLIENT_MESSAGE, XCB_CLIENT_MESSAGE + 128}
    /\ event.data32_0 = "WM_DELETE_WINDOW"

\* The non-null events of a sequence, in order.
RECURSIVE NonNull(_)
NonNull(seq) ==
    IF seq = <<>> THEN <<>>
    ELSE IF Head(seq).ptr = "NULL" THEN NonNull(Tail(seq))
    ELSE <<Head(seq)>> \o NonNull(Tail(seq))

\* The loop has ended exactly when the last event was a delete request, and
\* no earlier event was one; the window is destroyed once, after the loop.
LoopEndsOnDeleteOnly ==
    /\ \A k \in DOMAIN xcb.events :
          k < Len(xcb.events) => ~IsDeleteRequest(xcb.events[k])
    /\ xcb.events # <<>> =>
          (xcb.running <=> ~IsDeleteRequest(xcb.events[Len(xcb.events)]))
    /\ xcb.destroys = (IF xcb.pc = "returned" THEN 1 ELSE 0)
    /\ xcb.pc = "returned" => ~xcb.running

\* C13: in the XCB renderLoop only a client message carrying the
\* WM_DELETE_WINDOW atom ends the loop, every other event leaves it running,
\* the window is destroyed exactly once and only after the loop has ended,
\* and every event returned by xcb_wait_for_event is dereferenced only when
\* it is non-null and is freed exactly once.
C13_XcbLoop ==
    xcb.wmDeleteWin = "WM_DELETE_WINDOW"
    => /\ \A k \in DOMAIN xcb.derefs : xcb.derefs[k].ptr # "NULL"
       /\ xcb.pc # "crashed"
       /\ xcb.freed = NonNull(xcb.events)
       /\ LoopEndsOnDeleteOnly

\* The same, for the runs in which the atom reply and every event were
\* non-null.
C13_XcbLoopWithoutNull ==
    (/\ xcb.pc \in {"loop", "returned"}
     /\ xcb.wmDeleteWin = "WM_DELETE_WINDOW"
     /\ \A k \in DOMAIN xcb.events : xcb.events[k].ptr # "NULL")
    => /\ xcb.derefs = xcb.events
       /\ xcb.freed = xcb.events
       /\ LoopEndsOnDeleteOnly

-----------------------------------------------------------------------------
(* The VulkanExample constructor: initInstance, initDevices, the procedure *)
(* address loads and initSurface; initWindow is a member the program calls *)
(* on the constructed object.  An entry of app.calls is                    *)
(* [fn, call, result, count]: the function running, the API call or member *)
(* read it made, the VkResult (or the value read) and the count reported.  *)

\* Physical devices the driver may report.
MaxDevices == 3

\* Surface formats the driver may report.
MaxFormats == 1

\* Results of the instance, device and surface calls.
VkResults ==
    {"VK_SUCCESS", "VK_ERROR_INCOMPATIBLE_DRIVER",
     "VK_ERROR_INITIALIZATION_FAILED"}

\* Results of the enumeration calls.
VkEnumResults ==
    {"VK_SUCCESS", "VK_INCOMPLETE", "VK_ERROR_INITIALIZATION_FAILED"}

\* Variant: exitOnError only reports the message and returns.
exitOnError_Returns(a, msg) ==
    [a EXCEPT !.calls = Append(@, [fn |-> "exitOnError", call |-> msg,
                                   result |-> "returned", count |-> 0])]

\* VulkanExample::exitOnError: the message is shown and exit(EXIT_FAILURE)
\* ends the process; the call does not return.
exitOnError(a, msg) ==
    [a EXCEPT !.pc = "exited",
              !.exitStatus = "EXIT_FAILURE",
              !.calls = Append(@, [fn |-> "exitOnError", call |-> msg,
                                   result |-> "exit", count |-> 0])]

\* The process is still running.
Alive(a) == a.pc # "exited"

\* The running process makes a call; an exited one makes none.
Call(a, fn, call, result, count) ==
    IF Alive(a)
    THEN [a EXCEPT !.calls = Append(@, [fn |-> fn, call |-> call,
                                        result |-> result, count |-> count])]
    ELSE a

\* if (cond) exitOnError(msg);
ExitIf(a, cond, msg) ==
    IF Alive(a) /\ cond THEN exitOnError(a, msg) ELSE a

\* VulkanExample::initInstance, with the result of vkCreateInstance.
initInstance(a, res) ==
    LET a1 == Call(a, "initInstance", "vkCreateInstance", res, 0)
        a2 == [a1 EXCEPT !.instance =
                  IF res = "VK_SUCCESS" THEN "created" ELSE @]
        a3 == ExitIf(a2, res = "VK_ERROR_INCOMPATIBLE_DRIVER",
                     "Cannot find a compatible Vulkan ICD")
    IN  ExitIf(a3, res # "VK_ERROR_INCOMPATIBLE_DRIVER" /\ res # "VK_SUCCESS",
               "The call to vkCreateInstance failed")

\* VulkanExample::initDevices, with the results of the two enumeration calls,
\* the device count reported and the result of vkCreateDevice.
initDevices(a, result1, count, result2, result3) ==
    LET a1 == Call(a, "initDevices", "vkEnumeratePhysicalDevices",
                   result1, count)
        a2 == IF Alive(a1) THEN [a1 EXCEPT !.deviceCount = count] ELSE a1
        a3 == ExitIf(a2, result1 # "VK_SUCCESS",
                     "Failed to enumerate physical devices")
        a4 == ExitIf(a3, a3.deviceCount < 1,
                     "No devices that support Vulkan")
        a5 == Call(a4, "initDevices", "vkEnumeratePhysicalDevices",
                   result2, a4.deviceCount)
        a6 == ExitIf(a5, result2 # "VK_SUCCESS",
                     "Failed to enumerate physical devices")
        a7 == Call(a6, "initDevices", "physicalDevices[0]",
                   IF a6.deviceCount >= 1 THEN "device" ELSE "out of bounds",
                   a6.deviceCount)
        a8 == IF Alive(a7)
              THEN [a7 EXCEPT !.physicalDevice =
                      IF a7.deviceCount >= 1 THEN "device" ELSE "garbage"]
              ELSE a7
        a9 == Call(a8, "initDevices", "vkCreateDevice", result3, 0)
        a10 == IF Alive(a9) /\ result3 = "VK_SUCCESS"
               THEN [a9 EXCEPT !.device = "created"]
               ELSE a9
        a11 == ExitIf(a10, result3 # "VK_SUCCESS",
                      "Failed to create a Vulkan logical device")
    IN  Call(a11, "initDevices", "vkGetPhysicalDeviceProperties",
             "printed", a11.deviceCount)

\* GET_INSTANCE_PROC_ADDR / GET_DEVICE_PROC_ADDR in the constructor.
loadProcAddrs(a) ==
    Call(Call(a, "constructor", "GET_INSTANCE_PROC_ADDR", a.instance, 0),
         "constructor", "GET_DEVICE_PROC_ADDR", a.device, 0)

\* VulkanExample::initSurface, with the result of the surface creation and
\* of each of the two format queries and the format count reported.  The create info
\* is filled from the members window / windowInstance (connection / window).
initSurface(a, result, formatResult1, formatCount, formatResult2) ==
    LET a1 == Call(a, "initSurface", "read window", a.window, 0)
        a2 == Call(a1, "initSurface", "vkCreateSurfaceKHR", result, 0)
        a3 == IF Alive(a2) /\ result = "VK_SUCCESS"
              THEN [a2 EXCEPT !.surface = "created"]
              ELSE a2
        a4 == ExitIf(a3, result # "VK_SUCCESS",
                     "Failed to create VkSurfaceKHR")
        a5 == Call(a4, "initSurface", "vkGetPhysicalDeviceSurfaceFormatsKHR",
                   formatResult1, formatCount)
        a6 == ExitIf(a5, formatResult1 # "VK_SUCCESS" \/ formatCount < 1,
                     "Failed to get device surface formats")
        a7 == Call(a6, "initSurface", "vkGetPhysicalDeviceSurfaceFormatsKHR",
                   formatResult2, formatCount)
    IN  ExitIf(a7, formatResult2 # "VK_SUCCESS" \/ formatCount < 1,
               "Failed to get device surface formats")

\* The statement of the constructor that follows, unless the process exited.
Then(a, pc) == IF Alive(a) THEN [a EXCEPT !.pc = pc] ELSE a

ConstructInitInstance ==
    /\ app.pc = "initInstance"
    /\ \E platform \in {"_WIN32", "__linux__"}, res \in VkResults :
          app' = Then(initInstance([app EXCEPT !.platform = platform], res),
                      "initDevices")
    /\ UNCHANGED <<cmdBuffer, requests, win, xcb>>

ConstructInitDevices ==
    /\ app.pc = "initDevices"
    /\ \E result1, result2 \in VkEnumResults, count \in 0..MaxDevices,
          result3 \in VkResults :
          app' = Then(initDevices(app, result1, count, result2, result3),
                      "loadProcAddrs")
    /\ UNCHANGED <<cmdBuffer, requests, win, xcb>>

ConstructLoadProcAddrs ==
    /\ app.pc = "loadProcAddrs"
    /\ app' = Then(loadProcAddrs(app), "initSurface")
    /\ UNCHANGED <<cmdBuffer, requests, win, xcb>>

ConstructInitSurface ==
    /\ app.pc = "initSurface"
    /\ \E result \in VkResults, formatResult1, formatResult2 \in VkEnumResults,
          formatCount \in 0..MaxFormats :
          app' = Then(initSurface(app, result, formatResult1, formatCount,
                                  formatResult2),
                      "constructed")
    /\ UNCHANGED <<cmdBuffer, requests, win, xcb>>

\* initWindow, called on the constructed object: the window members are
\* assigned, or the call exits on a failure.
CallInitWindow ==
    /\ app.pc = "constructed"
    /\ \E created \in BOOLEAN :
          app' = IF created
                 THEN [Call(app, "initWindow", "assign window", "assigned", 0)
                         EXCEPT !.window = "assigned", !.pc = "windowed"]
                 ELSE exitOnError(app, "Failed to create window")
    /\ UNCHANGED <<cmdBuffer, requests, win, xcb>>

\* VulkanExample::~VulkanExample on the constructed object.
Destruct ==
    /\ app.pc \in {"constructed", "windowed"}
    /\ app' = [Call(app, "destructor", "vkDestroyInstance", app.instance, 0)
                 EXCEPT !.pc = "destructed"]
    /\ UNCHANGED <<cmdBuffer, requests, win, xcb>>

NextConstruct ==
    \/ ConstructInitInstance
    \/ ConstructInitDevices
    \/ ConstructLoadProcAddrs
    \/ ConstructInitSurface
    \/ CallInitWindow
    \/ Destruct

SpecConstruct == Init /\ [][NextConstruct]_vars

\* Entry k of the call log is one of the initialization calls of C14 and
\* failed: a non-success result, or an enumeration reporting no device.
InitCallFailed(k) ==
    /\ app.calls[k].call \in
          {"vkCreateInstance", "vkEnumeratePhysicalDevices", "vkCreateDevice"}
    /\ \/ app.calls[k].result # "VK_SUCCESS"
       \/ /\ app.calls[k].call = "vkEnumeratePhysicalDevices"
          /\ app.calls[k].count < 1

OrderOf(k) ==
    CASE app.calls[k].fn = "initInstance" -> 1
      [] app.calls[k].fn = "initDevices"  -> 2
      [] app.calls[k].fn = "constructor"  -> 3
      [] app.calls[k].fn = "initSurface"  -> 4
      [] OTHER                            -> 5

\* The constructor runs initInstance, initDevices, the procedure address
\* loads and initSurface in that order.
ConstructorOrder ==
    /\ \A j, k \in DOMAIN app.calls :
          (j < k /\ app.calls[j].fn # "exitOnError"
                 /\ app.calls[k].fn # "exitOnError")
          => OrderOf(j) <= OrderOf(k)
    /\ app.pc \in {"constructed", "windowed", "destructed"}
       => \A n \in 1..4 : \E k \in DOMAIN app.calls : OrderOf(k) = n

\* C15: the constructor runs initInstance, initDevices, the procedure
\* address loads and initSurface in that order, and initSurface reads the
\* window members only after initWindow has assigned them.
C15_OrderAndWindowBeforeSurface ==
    /\ ConstructorOrder
    /\ \A k \in DOMAIN app.calls :
          (app.calls[k].fn = "initSurface" /\ app.calls[k].call = "read window")
          => /\ app.calls[k].result = "assigned"
             /\ \E j \in 1..(k - 1) : app.calls[j].fn = "initWindow"

\* The order part of C15 alone, with what the code does about the window:
\* initSurface reads the members before any initWindow call.
C15_OrderAndSurfaceBeforeWindow ==
    /\ ConstructorOrder
    /\ \A k \in DOMAIN app.calls :
          (app.calls[k].fn = "initSurface" /\ app.calls[k].call = "read window")
          => /\ app.calls[k].result = "unassigned"
             /\ \A j \in 1..(k - 1) : app.calls[j].fn # "initWindow"

====
